---- MODULE Spec2Model ----
(***************************************************************************)
(* IntelliSignal dashboard: the Express proxy (src/backend/index.js) and   *)
(* the React data-fetching components (Dashboard, GitHubCard, GitLabCard,  *)
(* StockChart).                                                            *)
(*                                                                         *)
(* Server requests are GET requests without a body, so the helmet, cors    *)
(* and express.json middleware pass every request on to the routes.        *)
(*                                                                         *)
(* Four specifications share the variables: Spec (the proxy), ClientSpec   *)
(* (one rendered component and its data fetches), DrillSpec (the same with *)
(* the clicks on the items of a card and the commit fetches they start)    *)
(* and PureSpec (calculateMarketMood and predictNextDay on their own).     *)
(***************************************************************************)
EXTENDS Integers, Sequences, FiniteSets, TLC

VARIABLES
  env,          \* server: process.env.NODE_ENV
  req,          \* server: the requests, their upstream calls and responses
  comp,         \* client: the component that is rendered
  phase,        \* client: "rendered" before the mount effect has run, then "mounted",
                \* "unmounted" after teardown
  username,     \* client: the username prop of a card (the symbol prop of StockChart)
  timer,        \* client: the refresh interval of the Dashboard
  loading,
  error,
  userData,     \* cards
  projects,     \* cards: projects (GitLabCard), repos (GitHubCard)
  stocks,       \* Dashboard
  githubStats,
  gitlabStats,
  marketMood,
  commitCount,
  chartData,    \* StockChart
  fetches,      \* client: the calls of the fetch operation, in flight or settled
  commits,      \* cards: repoCommits (GitHubCard), projectCommits (GitLabCard)
  expanded,     \* cards: expandedRepo, expandedProject
  cfetches,     \* cards: the calls of fetchRepoCommits / fetchProjectCommits in flight
  fn,           \* functions: the function that has been called, "none" before the call
  argument,     \* functions: its argument
  ret           \* functions: the value it returned

svars == <<env, req>>

cardVars == <<userData, projects>>

dashVars == <<stocks, githubStats, gitlabStats, marketMood, commitCount>>

drillVars == <<commits, expanded, cfetches>>

cvars ==
  <<comp, phase, username, timer, loading, error, cardVars, dashVars, chartData, fetches, drillVars>>

pvars == <<fn, argument, ret>>

vars == <<svars, cvars, pvars>>

----------------------------------------------------------------------------
(* Bounds *)

MaxReq == 2

Reqs == 1..MaxReq

----------------------------------------------------------------------------
(* JSON values exchanged with the upstream APIs.  A list holds the ids of   *)
(* its element objects; an object is known by its id.                       *)

JNull == [t |-> "null", items |-> <<>>, id |-> 0]

JList(s) == [t |-> "list", items |-> s, id |-> 0]

JObj(i) == [t |-> "obj", items |-> <<>>, id |-> i]

JUndefined == [t |-> "undefined", items |-> <<>>, id |-> 0]

Payloads == {JNull, JList(<<>>), JList(<<2, 1>>), JObj(1)}

\* JavaScript truthiness of a JSON value: null and undefined are falsy, every
\* object and every array (the empty one too) is truthy.
Truthy(v) == v.t \notin {"null", "undefined"}

\* v.length: defined for arrays only.
HasLength(v) == v.t = "list"

\* v[0]
First(v) == IF v.t = "list" /\ Len(v.items) > 0 THEN JObj(v.items[1]) ELSE JUndefined

\* response.data || []
OrEmptyList(v) == IF Truthy(v) THEN v ELSE JList(<<>>)

----------------------------------------------------------------------------
(* Upstream replies: axios resolves with a payload on a 2xx status and      *)
(* rejects on a timeout, a network error or any other status.               *)

Failures == {"timeout", "network", "status500", "status404"}

Ok(v) == [ok |-> TRUE, data |-> v, err |-> "none"]

Fail(e) == [ok |-> FALSE, data |-> JNull, err |-> e]

Pending == [ok |-> FALSE, data |-> JNull, err |-> "pending"]

Replies == {Ok(v) : v \in Payloads} \cup {Fail(e) : e \in Failures}

\* error.message of the rejection
ErrMessage(e) ==
  CASE e = "timeout" -> "timeout of 10000ms exceeded"
    [] e = "network" -> "Network Error"
    [] e = "status500" -> "Request failed with status code 500"
    [] e = "status404" -> "Request failed with status code 404"
    [] OTHER -> "Cannot read properties of undefined (reading 'id')"

----------------------------------------------------------------------------
(* Requests and routes.  A path is its sequence of segments.                *)

Usernames == {"lukhanyo"}

ParamSegs == {":username", ":owner", ":repo", ":userid", ":projectId"}

Paths ==
  {<<>>, <<"api", "dashboard-data">>}
  \cup {<<"api", "github", "user", u>> : u \in Usernames}
  \cup {<<"api", "github", "user", u, "repos">> : u \in Usernames}
  \cup {<<"api", "github", "repos", u, "intellisignal", "commits">> : u \in Usernames}
  \cup {<<"api", "gitlab", "user", u>> : u \in Usernames}
  \cup {<<"api", "gitlab", "projects", u>> : u \in Usernames}
  \cup {<<"api", "gitlab", "projects", u, "commits">> : u \in Usernames}
  \cup {<<"api", "gitlab", "search", u>> : u \in Usernames}
  \cup {<<"api", "historical", u>> : u \in Usernames}

Layer(type, pattern, handler) == [type |-> type, pattern |-> pattern, handler |-> handler]

\* mutant: the GitLab user, projects and search routes are registered only
\* after the 404 handler
StackLateRoutes == <<
  Layer("next", <<>>, "helmet"),
  Layer("next", <<>>, "cors"),
  Layer("next", <<>>, "json"),
  Layer("route", <<>>, "health"),
  Layer("route", <<"api", "github", "user", ":username">>, "githubUser"),
  Layer("route", <<"api", "github", "user", ":username", "repos">>, "githubRepos"),
  Layer("route", <<"api", "github", "repos", ":owner", ":repo", "commits">>, "githubCommits"),
  Layer("route", <<"api", "gitlab", "projects", ":projectId", "commits">>, "gitlabCommits"),
  Layer("error", <<>>, "errorMiddleware"),
  Layer("use", <<>>, "notFound"),
  Layer("route", <<"api", "gitlab", "user", ":username">>, "gitlabUser"),
  Layer("route", <<"api", "gitlab", "projects", ":userid">>, "gitlabProjects"),
  Layer("route", <<"api", "gitlab", "search", ":username">>, "gitlabSearch")
  >>

\* The router stack in registration order.
Stack == <<
  Layer("next", <<>>, "helmet"),
  Layer("next", <<>>, "cors"),
  Layer("next", <<>>, "json"),
  Layer("route", <<>>, "health"),
  Layer("route", <<"api", "github", "user", ":username">>, "githubUser"),
  Layer("route", <<"api", "github", "user", ":username", "repos">>, "githubRepos"),
  Layer("route", <<"api", "github", "repos", ":owner", ":repo", "commits">>, "githubCommits"),
  Layer("route", <<"api", "gitlab", "user", ":username">>, "gitlabUser"),
  Layer("route", <<"api", "gitlab", "projects", ":userid">>, "gitlabProjects"),
  Layer("route", <<"api", "gitlab", "projects", ":projectId", "commits">>, "gitlabCommits"),
  Layer("route", <<"api", "gitlab", "search", ":username">>, "gitlabSearch"),
  Layer("error", <<>>, "errorMiddleware"),
  Layer("use", <<>>, "notFound"),
  Layer("route", <<"api", "gitlab", "user", ":username">>, "gitlabUser"),
  Layer("route", <<"api", "gitlab", "projects", ":userid">>, "gitlabProjects"),
  Layer("route", <<"api", "gitlab", "search", ":username">>, "gitlabSearch")
  >>

\* A route pattern matches a path of the same length whose segments equal the
\* pattern's, a parameter segment matching any one segment.
Match(pattern, path) ==
  /\ Len(pattern) = Len(path)
  /\ \A i \in 1..Len(pattern) : pattern[i] \in ParamSegs \/ pattern[i] = path[i]

\* Whether a layer answers a request that carries no error: a route answers
\* the paths it matches, app.use((req, res) => ...) answers every path, a
\* pass-through middleware and the four-argument error middleware answer none.
Handles(layer, path) ==
  \/ layer.type = "route" /\ Match(layer.pattern, path)
  \/ layer.type = "use"

\* Index of the first layer that answers the path; 0 when none does.
Dispatch(path) ==
  IF \E i \in 1..Len(Stack) : Handles(Stack[i], path)
  THEN CHOOSE i \in 1..Len(Stack) :
         /\ Handles(Stack[i], path)
         /\ \A j \in 1..(i - 1) : ~Handles(Stack[j], path)
  ELSE 0

\* req.params of the matched route
Param(layer, path, name) ==
  IF \E i \in 1..Len(layer.pattern) : layer.pattern[i] = name
  THEN path[CHOOSE i \in 1..Len(layer.pattern) : layer.pattern[i] = name]
  ELSE ""

----------------------------------------------------------------------------
(* Responses *)

Body(kind, value, user, fields, message, detail, path) ==
  [kind |-> kind, value |-> value, user |-> user, fields |-> fields,
   message |-> message, error |-> detail, path |-> path]

\* res.json(v): the JSON value v itself is the body
JsonBody(v) == Body("json", v, JNull, {}, "", "", <<>>)

\* res.json({message, error}) and the like
Envelope(fields, message, detail) == Body("envelope", JNull, JNull, fields, message, detail, <<>>)

\* res.json({user, projects, success: true})
Composite(user, list) ==
  Body("composite", list, user, {"user", "projects", "success"}, "", "", <<>>)

\* express's built-in answer when no layer handles the request
FinalHandlerBody == Body("html", JNull, JNull, {}, "Cannot GET", "", <<>>)

Target(api, name, id) == [api |-> api, name |-> name, repo |-> "", id |-> id]

\* the commits of owner/repo
RepoTarget(owner, repo) == [api |-> "github.commits", name |-> owner, repo |-> repo, id |-> 0]

NewRequest == [pc |-> "new", path |-> <<>>, layer |-> 0, handler |-> "", calls |-> <<>>, sent |-> <<>>]

\* res.status(status).json(body); the handler is finished
Send(q, status, body) ==
  [q EXCEPT !.sent = Append(@, [status |-> status, body |-> body]), !.pc = "done"]

\* await axios.get(target): the handler is suspended until the call settles
Call(q, target) ==
  [q EXCEPT !.calls = Append(@, [target |-> target, reply |-> Pending]), !.pc = "await"]

\* the pending call of q settles with reply
Settle(q, reply) == [q EXCEPT !.calls[Len(q.calls)].reply = reply]

\* catch (error) { res.status(500).json({message, error: error.message}) }
CatchBody(message, e) == Envelope({"message", "error"}, message, ErrMessage(e))

----------------------------------------------------------------------------
(* Route handlers: what each does once its upstream call has settled.       *)

\* mutant: the health check probes the GitHub API first
HealthProbe(q) == Call(q, Target("github.user", "", 0))

Health(q) ==
  Send(q, 200, Envelope({"message", "status", "timestamp"}, "IntelliSignal Backend is running!", ""))

\* mutant: an upstream 404 is passed on as 404
GithubUserMaps404(q, reply) ==
  IF reply.ok
  THEN Send(q, 200, JsonBody(reply.data))
  ELSE IF reply.err = "status404"
  THEN Send(q, 404, CatchBody("GitHub user not found", reply.err))
  ELSE Send(q, 500, CatchBody("Error fetching GitHub user data", reply.err))

GithubUser(q, reply) ==
  IF reply.ok
  THEN Send(q, 200, JsonBody(reply.data))
  ELSE Send(q, 500, CatchBody("Error fetching GitHub user data", reply.err))

GithubRepos(q, reply) ==
  IF reply.ok
  THEN Send(q, 200, JsonBody(OrEmptyList(reply.data)))
  ELSE Send(q, 500, CatchBody("Error fetching GitHub repositories", reply.err))

\* mutant: a failed call is issued once more
GithubCommitsRetry(q, reply) ==
  IF reply.ok
  THEN Send(q, 200, JsonBody(OrEmptyList(reply.data)))
  ELSE IF Len(q.calls) < 2
  THEN Call(q, q.calls[1].target)
  ELSE Send(q, 500, CatchBody("Error fetching GitHub commits", reply.err))

GithubCommits(q, reply) ==
  IF reply.ok
  THEN Send(q, 200, JsonBody(OrEmptyList(reply.data)))
  ELSE Send(q, 500, CatchBody("Error fetching GitHub commits", reply.err))

\* mutant: relays the whole list of matches
GitlabUserWholeList(q, reply) ==
  IF reply.ok
  THEN IF Truthy(reply.data) /\ HasLength(reply.data) /\ Len(reply.data.items) > 0
       THEN Send(q, 200, JsonBody(reply.data))
       ELSE Send(q, 404, Envelope({"message", "error"}, "GitLab user not found", "User not found"))
  ELSE Send(q, 500, CatchBody("Error fetching GitLab user data", reply.err))

\* mutant: no else branch, an empty list is never answered
GitlabUserNoElse(q, reply) ==
  IF reply.ok
  THEN IF Truthy(reply.data) /\ HasLength(reply.data) /\ Len(reply.data.items) > 0
       THEN Send(q, 200, JsonBody(First(reply.data)))
       ELSE [q EXCEPT !.pc = "done"]
  ELSE Send(q, 500, CatchBody("Error fetching GitLab user data", reply.err))

\* mutant: tests response.data only, an empty list is answered with its
\* (missing) first element
GitlabUserEmptyOk(q, reply) ==
  IF reply.ok
  THEN IF Truthy(reply.data)
       THEN Send(q, 200, JsonBody(First(reply.data)))
       ELSE Send(q, 404, Envelope({"message", "error"}, "GitLab user not found", "User not found"))
  ELSE Send(q, 500, CatchBody("Error fetching GitLab user data", reply.err))

GitlabUser(q, reply) ==
  IF reply.ok
  THEN IF Truthy(reply.data) /\ HasLength(reply.data) /\ Len(reply.data.items) > 0
       THEN Send(q, 200, JsonBody(First(reply.data)))
       ELSE Send(q, 404, Envelope({"message", "error"}, "GitLab user not found", "User not found"))
  ELSE Send(q, 500, CatchBody("Error fetching GitLab user data", reply.err))

\* mutant: a process-wide limit of one upstream call at a time; a request
\* whose call settles while another request is waiting is refused
GitlabProjectsBusy(q, reply) ==
  IF Cardinality({x \in Reqs : req[x].pc = "await"}) > 1
  THEN Send(q, 500, CatchBody("Error fetching GitLab projects", "busy"))
  ELSE IF reply.ok
  THEN Send(q, 200, JsonBody(OrEmptyList(reply.data)))
  ELSE Send(q, 500, CatchBody("Error fetching GitLab projects", reply.err))

GitlabProjects(q, reply) ==
  IF reply.ok
  THEN Send(q, 200, JsonBody(OrEmptyList(reply.data)))
  ELSE Send(q, 500, CatchBody("Error fetching GitLab projects", reply.err))

GitlabCommits(q, reply) ==
  IF reply.ok
  THEN Send(q, 200, JsonBody(OrEmptyList(reply.data)))
  ELSE Send(q, 500, CatchBody("Error fetching GitLab commits", reply.err))

\* mutant: the envelope of the catch block lacks the message
SearchCatchBodyNoMessage(e) == Envelope({"error", "suggestion"}, "", ErrMessage(e))

SearchCatchBody(e) ==
  Envelope({"message", "error", "suggestion"}, "Error searching GitLab user", ErrMessage(e))

\* mutant: tests userResponse.data.length === 0 only, so a missing list
\* throws inside the try block
GitlabSearchUserNoNullCheck(q, reply) ==
  IF ~reply.ok
  THEN Send(q, 500, SearchCatchBody(reply.err))
  ELSE IF ~Truthy(reply.data)
  THEN Send(q, 500, SearchCatchBody("typeerror"))
  ELSE IF HasLength(reply.data) /\ Len(reply.data.items) = 0
  THEN Send(q, 404, Envelope({"message", "suggestion"}, "GitLab user not found", ""))
  ELSE IF First(reply.data) = JUndefined
  THEN Send(q, 500, SearchCatchBody("typeerror"))
  ELSE Call(q, Target("gitlab.userProjects", "", First(reply.data).id))

\* the search handler after its user lookup has settled
GitlabSearchUser(q, reply) ==
  IF ~reply.ok
  THEN Send(q, 500, SearchCatchBody(reply.err))
  ELSE IF ~Truthy(reply.data) \/ (HasLength(reply.data) /\ Len(reply.data.items) = 0)
  THEN Send(q, 404, Envelope({"message", "suggestion"}, "GitLab user not found", ""))
  ELSE IF First(reply.data) = JUndefined
  THEN Send(q, 500, SearchCatchBody("typeerror"))
  ELSE Call(q, Target("gitlab.userProjects", "", First(reply.data).id))

\* the search handler after its projects call has settled
GitlabSearchProjects(q, reply) ==
  IF reply.ok
  THEN Send(q, 200, Composite(First(q.calls[1].reply.data), OrEmptyList(reply.data)))
  ELSE Send(q, 500, SearchCatchBody(reply.err))

NotFound(q) ==
  Send(q, 404, Body("envelope", JNull, JNull, {"message", "path"}, "Route not found", "", q.path))

\* The synchronous start of the handler that the router picks for the path.
Begin(path) ==
  LET i == Dispatch(path)
      layer == IF i = 0 THEN Layer("none", <<>>, "finalhandler") ELSE Stack[i]
      h == layer.handler
      q == [NewRequest EXCEPT !.path = path, !.layer = i, !.handler = h]
  IN CASE h = "health" -> Health(q)
       [] h = "githubUser" -> Call(q, Target("github.user", Param(layer, path, ":username"), 0))
       [] h = "githubRepos" -> Call(q, Target("github.repos", Param(layer, path, ":username"), 0))
       [] h = "githubCommits" -> Call(q, RepoTarget(Param(layer, path, ":owner"), Param(layer, path, ":repo")))
       [] h = "gitlabUser" -> Call(q, Target("gitlab.users", Param(layer, path, ":username"), 0))
       [] h = "gitlabProjects" -> Call(q, Target("gitlab.userProjects", Param(layer, path, ":userid"), 0))
       [] h = "gitlabCommits" -> Call(q, Target("gitlab.commits", Param(layer, path, ":projectId"), 0))
       [] h = "gitlabSearch" -> Call(q, Target("gitlab.users", Param(layer, path, ":username"), 0))
       [] h = "notFound" -> NotFound(q)
       [] OTHER -> Send(q, 404, FinalHandlerBody)

----------------------------------------------------------------------------
(* Server actions *)

ServerInit ==
  /\ env \in {"production", "development"}
  /\ req = [r \in Reqs |-> NewRequest]

\* A request arrives (requests are numbered in arrival order).
Request(r) ==
  /\ req[r].pc = "new"
  /\ IF r = 1 THEN TRUE ELSE req[r - 1].pc # "new"
  /\ \E path \in Paths : req' = [req EXCEPT ![r] = Begin(path)]
  /\ UNCHANGED <<env, cvars, pvars>>

Awaiting(r, h, n) == req[r].pc = "await" /\ req[r].handler = h /\ Len(req[r].calls) = n

GetGithubUser(r) ==
  /\ Awaiting(r, "githubUser", 1)
  /\ \E reply \in Replies : req' = [req EXCEPT ![r] = GithubUser(Settle(@, reply), reply)]
  /\ UNCHANGED <<env, cvars, pvars>>

GetGithubRepos(r) ==
  /\ Awaiting(r, "githubRepos", 1)
  /\ \E reply \in Replies : req' = [req EXCEPT ![r] = GithubRepos(Settle(@, reply), reply)]
  /\ UNCHANGED <<env, cvars, pvars>>

GetGithubCommits(r) ==
  /\ Awaiting(r, "githubCommits", 1)
  /\ \E reply \in Replies : req' = [req EXCEPT ![r] = GithubCommits(Settle(@, reply), reply)]
  /\ UNCHANGED <<env, cvars, pvars>>

GetGitlabUser(r) ==
  /\ Awaiting(r, "gitlabUser", 1)
  /\ \E reply \in Replies : req' = [req EXCEPT ![r] = GitlabUser(Settle(@, reply), reply)]
  /\ UNCHANGED <<env, cvars, pvars>>

GetGitlabProjects(r) ==
  /\ Awaiting(r, "gitlabProjects", 1)
  /\ \E reply \in Replies : req' = [req EXCEPT ![r] = GitlabProjects(Settle(@, reply), reply)]
  /\ UNCHANGED <<env, cvars, pvars>>

GetGitlabCommits(r) ==
  /\ Awaiting(r, "gitlabCommits", 1)
  /\ \E reply \in Replies : req' = [req EXCEPT ![r] = GitlabCommits(Settle(@, reply), reply)]
  /\ UNCHANGED <<env, cvars, pvars>>

GetGitlabSearchUser(r) ==
  /\ Awaiting(r, "gitlabSearch", 1)
  /\ \E reply \in Replies : req' = [req EXCEPT ![r] = GitlabSearchUser(Settle(@, reply), reply)]
  /\ UNCHANGED <<env, cvars, pvars>>

GetGitlabSearchProjects(r) ==
  /\ Awaiting(r, "gitlabSearch", 2)
  /\ \E reply \in Replies : req' = [req EXCEPT ![r] = GitlabSearchProjects(Settle(@, reply), reply)]
  /\ UNCHANGED <<env, cvars, pvars>>

\* the steps that end an upstream call (success, failure or timeout)
Settles(r) ==
  \/ GetGithubUser(r)
  \/ GetGithubRepos(r)
  \/ GetGithubCommits(r)
  \/ GetGitlabUser(r)
  \/ GetGitlabProjects(r)
  \/ GetGitlabCommits(r)
  \/ GetGitlabSearchUser(r)
  \/ GetGitlabSearchProjects(r)

ServerNext ==
  \/ \E r \in Reqs : Request(r)
  \/ \E r \in Reqs : GetGithubUser(r)
  \/ \E r \in Reqs : GetGithubRepos(r)
  \/ \E r \in Reqs : GetGithubCommits(r)
  \/ \E r \in Reqs : GetGitlabUser(r)
  \/ \E r \in Reqs : GetGitlabProjects(r)
  \/ \E r \in Reqs : GetGitlabCommits(r)
  \/ \E r \in Reqs : GetGitlabSearchUser(r)
  \/ \E r \in Reqs : GetGitlabSearchProjects(r)

----------------------------------------------------------------------------
(* Client: values held in component state.                                  *)

MaxFetch == 2

Fetches == 1..MaxFetch

\* versions of an upstream resource, to tell two responses apart
Vers == {1, 2}

CardUsernames == {"Lukhanyo05", "lukhanyoN"}

\* values of the symbol prop of StockChart
Symbols == {"AAPL", "MSFT"}

\* the values the prop of the rendered component may take
PropValues == IF comp = "StockChart" THEN Symbols ELSE CardUsernames

Null == "null"

D(src, name, ver, count) == [src |-> src, name |-> name, ver |-> ver, count |-> count]

\* useState(null)
NullData == D("null", "", 0, 0)

\* useState([])
EmptyList == D("empty", "", 0, 0)

\* a record or list the upstream returned for name
Live(name, ver) == D("live", name, ver, 0)

\* the GitLab demo user: {username: gitlabUsername, name: "Lukhanyo N", ..., id: 123456}
DemoUser(name) == D("demo", name, 0, 123456)

\* the two GitLab demo projects
DemoProjects == D("demo", "", 0, 2)

CardErrorGitLab == "GitLab data temporarily unavailable - using demo data"

CardErrorGitHub == "Failed to fetch GitHub data. Please check the username and try again."

ChartError == "Using demonstration data - real data temporarily unavailable"

\* changesPercentage of the five mock quotes, in hundredths of a percent
MockData == <<127, 130, -65, 197, 180>>

\* quote lists an API may return (changesPercentage in hundredths)
QuoteLists == {<<>>, <<250>>, <<100, 300>>, <<150>>, <<-50, -250>>}

\* the five mock points of generateMockData followed by the predicted point
MockChart == D("mock", "", 0, 6)

RECURSIVE SumSeq(_)
SumSeq(s) == IF s = <<>> THEN 0 ELSE s[1] + SumSeq(Tail(s))

\* avgPerformance > t (t in percent), the average taken over hundredths
AvgAbove(s, t) == SumSeq(s) > t * 100 * Len(s)

\* mutant: the sum of the percentages is not divided by their number
LadderOfSum(s) ==
  IF SumSeq(s) > 200 THEN "rocket"
  ELSE IF SumSeq(s) > 100 THEN "cool"
  ELSE IF SumSeq(s) > 0 THEN "smile"
  ELSE IF SumSeq(s) > -100 THEN "neutral"
  ELSE IF SumSeq(s) > -200 THEN "worried"
  ELSE "fire"

Ladder(s) ==
  IF AvgAbove(s, 2) THEN "rocket"
  ELSE IF AvgAbove(s, 1) THEN "cool"
  ELSE IF AvgAbove(s, 0) THEN "smile"
  ELSE IF AvgAbove(s, -1) THEN "neutral"
  ELSE IF AvgAbove(s, -2) THEN "worried"
  ELSE "fire"

calculateMarketMood(stocksData) ==
  IF Len(stocksData) = 0 THEN "sleeping" ELSE Ladder(stocksData)

\* The variant has no empty check: 0 / 0 is NaN, every comparison with NaN
\* is false and the ladder falls through to its last label.
calculateMarketMoodVariant(stocksData) ==
  IF Len(stocksData) = 0 THEN "fire" ELSE Ladder(stocksData)

----------------------------------------------------------------------------
(* Client: outbound calls.                                                  *)

CFailures == {"timeout", "network", "status500", "status404", "status429"}

COk(d) == [ok |-> TRUE, data |-> d, quotes |-> <<>>, err |-> "none"]

CQuotes(s) == [ok |-> TRUE, data |-> NullData, quotes |-> s, err |-> "none"]

CFail(e) == [ok |-> FALSE, data |-> NullData, quotes |-> <<>>, err |-> e]

\* err.code of an axios rejection
ErrCode(e) ==
  CASE e = "timeout" -> "ECONNABORTED"
    [] e = "network" -> "ERR_NETWORK"
    [] e \in {"status404", "status429"} -> "ERR_BAD_REQUEST"
    [] e = "status500" -> "ERR_BAD_RESPONSE"
    [] OTHER -> "undefined"

\* A call of the fetch operation: where it stands, its argument, the data of
\* its responses, how it ended, and (history) the calls that were in flight
\* when it started.
IdleFetch ==
  [pc |-> "idle", arg |-> "", r1 |-> NullData, r2 |-> NullData, quotes |-> <<>>, outcome |-> "none",
   over |-> {}]

InFlight(f) == fetches[f].pc \in {"await", "await2"}

\* the slot of the next call of the fetch operation
FreeSlot == CHOOSE f \in Fetches : fetches[f].pc = "idle" /\ \A g \in 1..(f - 1) : fetches[g].pc # "idle"

HasFreeSlot == \E f \in Fetches : fetches[f].pc = "idle"

\* mutant: the fetch operation does not enter the loading state
StartFetchQuiet(arg) ==
  /\ HasFreeSlot
  /\ UNCHANGED loading
  /\ error' = Null
  /\ fetches' = [fetches EXCEPT ![FreeSlot] = [IdleFetch EXCEPT !.pc = "await", !.arg = arg,
                                                             !.over = {g \in Fetches : InFlight(g)}]]

\* try { setLoading(true); setError(null); await axios.get(...)
StartFetch(arg) ==
  /\ HasFreeSlot
  /\ loading' = TRUE
  /\ error' = Null
  /\ fetches' = [fetches EXCEPT ![FreeSlot] = [IdleFetch EXCEPT !.pc = "await", !.arg = arg,
                                                             !.over = {g \in Fetches : InFlight(g)}]]

\* the fetch in slot f is over
Finish(f, outcome, r1, r2) ==
  fetches' = [fetches EXCEPT ![f] = [@ EXCEPT !.pc = "done", !.outcome = outcome, !.r1 = r1, !.r2 = r2]]

\* Commit drill-down of the cards.

MaxCommitFetch == 2

\* repo.name of the repositories (GitHubCard), project.id of the projects
\* (GitLabCard) in a displayed list.  Each GitHub user has one repository,
\* of the same name; the GitLab users have no project, the demo projects
\* have the ids 1 and 2.
ItemsOf(list) ==
  CASE comp = "GitHubCard" /\ list.src = "live" -> {"dashboard"}
    [] comp = "GitLabCard" /\ list.src = "demo" -> {"1", "2"}
    [] OTHER -> {}

Keys == {"dashboard", "1", "2"}

\* commits[k] of a key the object does not have
NoEntry == [src |-> "absent", owner |-> ""]

\* the commits of the item of owner, as the proxy returned them
Loaded(owner) == [src |-> "live", owner |-> owner]

\* []
EmptyCommits == [src |-> "empty", owner |-> ""]

\* A call of the commits fetch: the user whose list was displayed when it
\* was issued, and the key.
CommitRequest(owner, key) == [owner |-> owner, key |-> key]

\* the demo list has no owner
CommitRequests ==
  {CommitRequest(o, "dashboard") : o \in CardUsernames} \cup {CommitRequest("", k) : k \in {"1", "2"}}

\* cfetches[r] is the number of calls for r that await their response
NoCommitFetch == [r \in CommitRequests |-> 0]

RECURSIVE SumOver(_, _)
SumOver(count, S) ==
  IF S = {} THEN 0
  ELSE LET r == CHOOSE x \in S : TRUE IN count[r] + SumOver(count, S \ {r})

\* the commits calls in flight
InFlightCommits == SumOver(cfetches, CommitRequests)

\* mutant: the cache is reset, the expanded item is kept
ResetCommitsKeepExpanded ==
  /\ commits' = [k \in Keys |-> NoEntry]
  /\ UNCHANGED expanded
  /\ UNCHANGED cfetches

\* setRepoCommits({}); setExpandedRepo(null); the commits calls in flight
\* are not cancelled
ResetCommits ==
  /\ commits' = [k \in Keys |-> NoEntry]
  /\ expanded' = "none"
  /\ UNCHANGED cfetches

\* mutant: useState(false) for loading
ClientInitIdle ==
  /\ comp \in {"GitLabCard", "GitLabCardDirect", "GitHubCard", "StockChart", "Dashboard", "DashboardVariant"}
  /\ phase = "rendered"
  /\ username \in IF comp = "StockChart" THEN {"", "AAPL"}
                  ELSE IF comp \in {"Dashboard", "DashboardVariant"} THEN {""}
                  ELSE CardUsernames
  /\ timer = "none"
  /\ loading = FALSE
  /\ error = Null
  /\ userData = NullData
  /\ projects = EmptyList
  /\ stocks = <<>>
  /\ githubStats = NullData
  /\ gitlabStats = NullData
  /\ marketMood = "sleeping"
  /\ commitCount = 0
  /\ chartData = EmptyList
  /\ fetches = [f \in Fetches |-> IdleFetch]
  /\ commits = [k \in Keys |-> NoEntry]
  /\ expanded = "none"
  /\ cfetches = NoCommitFetch

ClientInit ==
  /\ comp \in {"GitLabCard", "GitLabCardDirect", "GitHubCard", "StockChart", "Dashboard", "DashboardVariant"}
  /\ phase = "rendered"
  /\ username \in IF comp = "StockChart" THEN {"", "AAPL"}
                  ELSE IF comp \in {"Dashboard", "DashboardVariant"} THEN {""}
                  ELSE CardUsernames
  /\ timer = "none"
  /\ loading = TRUE
  /\ error = Null
  /\ userData = NullData
  /\ projects = EmptyList
  /\ stocks = <<>>
  /\ githubStats = NullData
  /\ gitlabStats = NullData
  /\ marketMood = "sleeping"
  /\ commitCount = 0
  /\ chartData = EmptyList
  /\ fetches = [f \in Fetches |-> IdleFetch]
  /\ commits = [k \in Keys |-> NoEntry]
  /\ expanded = "none"
  /\ cfetches = NoCommitFetch

IsCard == comp \in {"GitLabCard", "GitLabCardDirect", "GitHubCard"}

IsDashboard == comp \in {"Dashboard", "DashboardVariant"}

----------------------------------------------------------------------------
(* Client: what starts a fetch.                                             *)

AxiosTimeout == 10000

VariantTimeout == 8000

RefreshInterval == 60000

\* the longest a refresh cycle of the Dashboard can last
CycleLimit == IF comp = "Dashboard" THEN 2 * AxiosTimeout ELSE VariantTimeout

\* useEffect(() => { fetch(username) }, [username]) at mount
UseEffect ==
  /\ comp \in {"GitLabCard", "GitLabCardDirect", "GitHubCard", "StockChart"}
  /\ phase = "rendered"
  /\ phase' = "mounted"
  /\ IF comp = "StockChart" /\ username = ""
     THEN UNCHANGED <<loading, error, fetches>>
     ELSE StartFetch(username)
  /\ UNCHANGED <<svars, pvars, drillVars, comp, username, timer, cardVars, dashVars, chartData>>

\* mutant: the effect has an empty dependency list and does not run again
ChangeUsernameNoRefetch(u) ==
  /\ comp \in {"GitLabCard", "GitLabCardDirect", "GitHubCard", "StockChart"}
  /\ phase = "mounted"
  /\ u \in PropValues
  /\ u # username
  /\ username' = u
  /\ UNCHANGED <<svars, pvars, drillVars, comp, phase, timer, loading, error, cardVars, dashVars, chartData, fetches>>

\* the parent renders the component with another username (symbol): the
\* effect runs again
ChangeUsername(u) ==
  /\ comp \in {"GitLabCard", "GitLabCardDirect", "GitHubCard", "StockChart"}
  /\ phase = "mounted"
  /\ u \in PropValues
  /\ u # username
  /\ username' = u
  /\ StartFetch(u)
  /\ UNCHANGED <<svars, pvars, drillVars, comp, phase, timer, cardVars, dashVars, chartData>>

\* handleSearch: the form is rendered only while loading is false, and the
\* trimmed input must not be empty
HandleSearch(u) ==
  /\ IsCard
  /\ phase = "mounted"
  /\ ~loading
  /\ StartFetch(u)
  /\ UNCHANGED <<svars, pvars, drillVars, comp, phase, username, timer, cardVars, dashVars, chartData>>

\* useEffect of the Dashboard: fetchDashboardData(); setInterval(fetchDashboardData, 60000)
DashboardEffect ==
  /\ IsDashboard
  /\ phase = "rendered"
  /\ phase' = "mounted"
  /\ timer' = "active"
  /\ StartFetch("")
  /\ UNCHANGED <<svars, pvars, drillVars, comp, username, cardVars, dashVars, chartData>>

\* the interval fires; every call of a cycle is cut off by its timeout, so a
\* cycle that cannot outlast the interval has settled by then
DashboardTick ==
  /\ IsDashboard
  /\ timer = "active"
  /\ CycleLimit < RefreshInterval => \A f \in Fetches : ~InFlight(f)
  /\ StartFetch("")
  /\ UNCHANGED <<svars, pvars, drillVars, comp, phase, username, timer, cardVars, dashVars, chartData>>

\* mutant: the effect returns no cleanup, the interval outlives the view
UnmountKeepTimer ==
  /\ phase = "mounted"
  /\ phase' = "unmounted"
  /\ UNCHANGED <<svars, pvars, drillVars, comp, username, timer, loading, error, cardVars, dashVars, chartData, fetches>>

\* the view is torn down: React runs the cleanup the effect returned, which is
\* clearInterval(intervalId) in the Dashboard and nothing in the other
\* components.  Calls in flight are not cancelled.
Unmount ==
  /\ phase = "mounted"
  /\ phase' = "unmounted"
  /\ timer' = IF timer = "active" THEN "cleared" ELSE timer
  /\ UNCHANGED <<svars, pvars, drillVars, comp, username, loading, error, cardVars, dashVars, chartData, fetches>>

----------------------------------------------------------------------------
(* Client: the fetch operations after their calls have settled.             *)

\* GitLabCard.fetchGitLabData, through the proxy's search route
GitLabCardSettled(f) ==
  /\ comp = "GitLabCard"
  /\ fetches[f].pc = "await"
  /\ \E reply \in {COk(Live(fetches[f].arg, v)) : v \in Vers} \cup {CFail(e) : e \in CFailures} :
       IF reply.ok
       THEN /\ userData' = reply.data
            /\ projects' = reply.data
            /\ ResetCommits
            /\ UNCHANGED error
            /\ Finish(f, "ok", reply.data, reply.data)
       ELSE /\ error' = CardErrorGitLab
            /\ userData' = DemoUser(fetches[f].arg)
            /\ projects' = DemoProjects
            /\ UNCHANGED drillVars
            /\ Finish(f, "failed", NullData, NullData)
  /\ loading' = FALSE
  /\ UNCHANGED <<svars, pvars, comp, phase, username, timer, dashVars, chartData>>

\* mutant: setLoading(false) at the end of the try block instead of in finally
DirectCatchKeepLoading(f) ==
  /\ error' = CardErrorGitLab
  /\ userData' = DemoUser(fetches[f].arg)
  /\ projects' = DemoProjects
  /\ UNCHANGED loading
  /\ Finish(f, "failed", fetches[f].r1, NullData)

\* mutant: the catch block throws the error on
DirectCatchRethrow(f) ==
  /\ error' = CardErrorGitLab
  /\ userData' = DemoUser(fetches[f].arg)
  /\ projects' = DemoProjects
  /\ loading' = FALSE
  /\ Finish(f, "threw", fetches[f].r1, NullData)

\* the catch block of the direct-API GitLabCard
DirectCatch(f) ==
  /\ error' = CardErrorGitLab
  /\ userData' = DemoUser(fetches[f].arg)
  /\ projects' = DemoProjects
  /\ loading' = FALSE
  /\ Finish(f, "failed", fetches[f].r1, NullData)

\* GitLabCard.fetchGitLabData of the direct-API variant, after the user lookup
GitLabDirectUser(f) ==
  /\ comp = "GitLabCardDirect"
  /\ fetches[f].pc = "await"
  /\ \E reply \in {COk(Live(fetches[f].arg, v)) : v \in Vers} \cup {COk(EmptyList)}
                  \cup {CFail(e) : e \in CFailures} :
       IF reply.ok /\ reply.data # EmptyList
       THEN /\ userData' = reply.data
            /\ fetches' = [fetches EXCEPT ![f] = [@ EXCEPT !.pc = "await2", !.r1 = reply.data]]
            /\ UNCHANGED <<projects, loading, error>>
       ELSE DirectCatch(f)
  /\ UNCHANGED <<svars, pvars, drillVars, comp, phase, username, timer, dashVars, chartData>>

\* the same, after the projects call
GitLabDirectProjects(f) ==
  /\ comp = "GitLabCardDirect"
  /\ fetches[f].pc = "await2"
  /\ \E reply \in {COk(Live(fetches[f].arg, v)) : v \in Vers} \cup {CFail(e) : e \in CFailures} :
       IF reply.ok
       THEN /\ projects' = reply.data
            /\ loading' = FALSE
            /\ Finish(f, "ok", fetches[f].r1, reply.data)
            /\ UNCHANGED <<userData, error>>
       ELSE DirectCatch(f)
  /\ UNCHANGED <<svars, pvars, drillVars, comp, phase, username, timer, dashVars, chartData>>

\* GitHubCard.fetchGitHubData: Promise.all of the user and the repos call
GitHubCardSettled(f) ==
  /\ comp = "GitHubCard"
  /\ fetches[f].pc = "await"
  /\ \/ \E v1 \in Vers, v2 \in Vers :
          /\ userData' = Live(fetches[f].arg, v1)
          /\ projects' = Live(fetches[f].arg, v2)
          /\ ResetCommits
          /\ UNCHANGED error
          /\ Finish(f, "ok", Live(fetches[f].arg, v1), Live(fetches[f].arg, v2))
     \/ /\ error' = CardErrorGitHub
        /\ UNCHANGED <<userData, projects, drillVars>>
        /\ Finish(f, "failed", NullData, NullData)
  /\ loading' = FALSE
  /\ UNCHANGED <<svars, pvars, comp, phase, username, timer, dashVars, chartData>>

\* StockChart.fetchHistoricalData
StockChartSettled(f) ==
  /\ comp = "StockChart"
  /\ fetches[f].pc = "await"
  /\ \E reply \in {COk(Live(fetches[f].arg, v)) : v \in Vers} \cup {COk(EmptyList), COk(NullData)}
                  \cup {CFail(e) : e \in CFailures} :
       IF reply.ok /\ reply.data.src = "live"
       THEN /\ chartData' = reply.data
            /\ UNCHANGED error
            /\ Finish(f, "ok", reply.data, NullData)
       ELSE /\ error' = ChartError
            /\ chartData' = MockChart
            /\ Finish(f, "failed", NullData, NullData)
  /\ loading' = FALSE
  /\ UNCHANGED <<svars, pvars, drillVars, comp, phase, username, timer, cardVars, dashVars>>

\* public_repos of the GitHub user, number of projects of the GitLab user
RepoCounts == {0, 3}

ProjectCounts == {0, 2}

\* the rest of fetchDashboardData once fetchLiveDeveloperData has returned
ShowMockQuotes ==
  /\ stocks' = MockData
  /\ marketMood' = calculateMarketMood(MockData)
  /\ loading' = FALSE

\* fetchLiveDeveloperData after the GitHub call
DashboardGithub(f) ==
  /\ comp = "Dashboard"
  /\ fetches[f].pc = "await"
  /\ \E reply \in {COk(D("live", "Lukhanyo05", 0, n)) : n \in RepoCounts} \cup {COk(NullData)}
                  \cup {CFail(e) : e \in CFailures} :
       IF reply.ok
       THEN /\ fetches' = [fetches EXCEPT ![f] = [@ EXCEPT !.pc = "await2", !.r1 = reply.data]]
            /\ UNCHANGED <<stocks, marketMood, loading>>
       ELSE /\ ShowMockQuotes
            /\ Finish(f, "failed", NullData, NullData)
  /\ UNCHANGED <<svars, pvars, drillVars, comp, phase, username, timer, error, cardVars, githubStats, gitlabStats,
                 commitCount, chartData>>

\* fetchLiveDeveloperData after the GitLab call
DashboardGitlab(f) ==
  /\ comp = "Dashboard"
  /\ fetches[f].pc = "await2"
  /\ \E reply \in {COk(D("live", "lukhanyo", 0, n)) : n \in ProjectCounts}
                  \cup {CFail(e) : e \in CFailures} :
       IF reply.ok
       THEN /\ githubStats' = fetches[f].r1
            /\ gitlabStats' = reply.data
            \* githubResponse.data.public_repos throws when the data is null
            /\ IF fetches[f].r1 = NullData
               THEN UNCHANGED commitCount /\ Finish(f, "failed", fetches[f].r1, reply.data)
               ELSE /\ commitCount' = fetches[f].r1.count * 15 + reply.data.count * 8
                    /\ Finish(f, "ok", fetches[f].r1, reply.data)
       ELSE /\ UNCHANGED <<githubStats, gitlabStats, commitCount>>
            /\ Finish(f, "failed", fetches[f].r1, NullData)
  /\ ShowMockQuotes
  /\ UNCHANGED <<svars, pvars, drillVars, comp, phase, username, timer, error, cardVars, chartData>>

\* the warning of the variant's catch block
VariantMessage(e) ==
  IF ErrCode(e) = "ECONNABORTED" THEN "Data request timeout"
  ELSE IF ErrCode(e) = "NETWORK_ERROR" THEN "Network connection lost"
  ELSE IF e = "status429" THEN "API rate limit exceeded"
  ELSE "Financial data temporarily unavailable"

\* fetchDashboardData of the variant that calls /api/dashboard-data
DashboardVariantSettled(f) ==
  /\ comp = "DashboardVariant"
  /\ fetches[f].pc = "await"
  /\ \E reply \in {CQuotes(s) : s \in QuoteLists} \cup {COk(NullData)} \cup {CFail(e) : e \in CFailures} :
       IF reply.ok /\ Len(reply.quotes) > 0
       THEN /\ stocks' = reply.quotes
            /\ marketMood' = calculateMarketMoodVariant(reply.quotes)
            /\ UNCHANGED error
            /\ fetches' = [fetches EXCEPT ![f] = [@ EXCEPT !.pc = "done", !.outcome = "ok",
                                                             !.quotes = reply.quotes]]
       ELSE /\ error' = VariantMessage(IF reply.ok THEN "empty" ELSE reply.err)
            /\ stocks' = MockData
            /\ marketMood' = calculateMarketMoodVariant(MockData)
            /\ Finish(f, "failed", NullData, NullData)
  /\ loading' = FALSE
  /\ UNCHANGED <<svars, pvars, drillVars, comp, phase, username, timer, cardVars, githubStats, gitlabStats,
                 commitCount, chartData>>

\* the items of the card are rendered and can be clicked
ItemsShown ==
  /\ comp \in {"GitLabCard", "GitHubCard"}
  /\ phase = "mounted"
  /\ ~loading
  /\ userData # NullData

\* fetchRepoCommits(owner, key) / fetchProjectCommits(key) up to its await
StartCommitFetch(k) ==
  /\ InFlightCommits < MaxCommitFetch
  /\ cfetches' = [cfetches EXCEPT ![CommitRequest(projects.name, k)] = @ + 1]

\* toggleRepoExpansion(repo) / toggleProjectExpansion(project): a click on
\* the toggle of item k
ToggleExpansion(k) ==
  /\ ItemsShown
  /\ k \in ItemsOf(projects)
  /\ IF expanded = k
     THEN expanded' = "none" /\ UNCHANGED cfetches
     ELSE /\ expanded' = k
          /\ IF commits[k] = NoEntry THEN StartCommitFetch(k) ELSE UNCHANGED cfetches
  /\ UNCHANGED <<svars, pvars, comp, phase, username, timer, loading, error, cardVars, dashVars,
                 chartData, fetches, commits>>

\* mutant: the catch block of the commits fetch reports the failure
CommitsCatchWarn(r) ==
  /\ commits' = [commits EXCEPT ![r.key] = EmptyCommits]
  /\ error' = "Error fetching commits"

\* catch (err) { setRepoCommits(prev => ({...prev, [repoName]: []})) }
CommitsCatch(r) ==
  /\ commits' = [commits EXCEPT ![r.key] = EmptyCommits]
  /\ UNCHANGED error

\* fetchRepoCommits / fetchProjectCommits after its call has settled
CommitsSettled(r) ==
  /\ cfetches[r] > 0
  /\ \E ok \in BOOLEAN :
       /\ IF ok
          THEN commits' = [commits EXCEPT ![r.key] = Loaded(r.owner)] /\ UNCHANGED error
          ELSE CommitsCatch(r)
       /\ cfetches' = [cfetches EXCEPT ![r] = @ - 1]
  /\ UNCHANGED <<svars, pvars, comp, phase, username, timer, loading, cardVars, dashVars,
                 chartData, fetches, expanded>>

\* the steps that end an outbound call of fetch f
ClientSettles(f) ==
  \/ GitLabCardSettled(f)
  \/ GitLabDirectUser(f)
  \/ GitLabDirectProjects(f)
  \/ GitHubCardSettled(f)
  \/ StockChartSettled(f)
  \/ DashboardGithub(f)
  \/ DashboardGitlab(f)
  \/ DashboardVariantSettled(f)

ClientNext ==
  \/ UseEffect
  \/ \E u \in CardUsernames \cup Symbols : ChangeUsername(u)
  \/ \E u \in CardUsernames : HandleSearch(u)
  \/ DashboardEffect
  \/ DashboardTick
  \/ Unmount
  \/ \E f \in Fetches : GitLabCardSettled(f)
  \/ \E f \in Fetches : GitLabDirectUser(f)
  \/ \E f \in Fetches : GitLabDirectProjects(f)
  \/ \E f \in Fetches : GitHubCardSettled(f)
  \/ \E f \in Fetches : StockChartSettled(f)
  \/ \E f \in Fetches : DashboardGithub(f)
  \/ \E f \in Fetches : DashboardGitlab(f)
  \/ \E f \in Fetches : DashboardVariantSettled(f)

----------------------------------------------------------------------------
(* The functions of the components, called on their own.  Numbers with      *)
(* decimals are integers here: percentages in hundredths, prices in         *)
(* thousandths.                                                             *)

MaxQuotes == 2

MaxPoints == 3

\* changesPercentage values, in hundredths of a percent
Percentages == {-300, -200, -150, -100, -50, 0, 50, 100, 150, 200, 300}

\* prices, in thousandths
Prices == {100000, 100500, 101000, 102000}

\* values of Math.random(), in thousandths: 0 <= Math.random() < 1
Randoms == {0, 250, 500, 995}

SeqsUpTo(S, n) == UNION {[1..k -> S] : k \in 0..n}

\* a data point of the chart; a field the object does not have is "absent"
Point(name, price, predicted, confidence) ==
  [name |-> name, price |-> price, volume |-> 45201800, predicted |-> predicted, confidence |-> confidence]

\* data[0] of an empty array
UndefinedPoint == [name |-> "undefined", price |-> 0, volume |-> 0, predicted |-> "absent", confidence |-> "absent"]

HistoricalPoints == {Point("Day", price, "absent", "absent") : price \in Prices}

Abs(x) == IF x < 0 THEN -x ELSE x

\* 0.8 + Math.random() * 0.4, in thousandths
Factor(random) == 800 + (random * 400) \div 1000

\* mutant: the trend is scaled by 0.8 + Math.random() * 0.8
predictNextDayWide(data, random) ==
  IF Len(data) < 2
  THEN IF Len(data) = 0 THEN UndefinedPoint ELSE data[1]
  ELSE LET lastPoint == data[Len(data)]
           previousPoint == data[Len(data) - 1]
           recentTrend == lastPoint.price - previousPoint.price
           predictedChange == (recentTrend * (800 + (random * 800) \div 1000)) \div 1000
       IN [lastPoint EXCEPT !.name = "Predict",
                            !.price = lastPoint.price + predictedChange,
                            !.predicted = "true",
                            !.confidence = IF Abs(recentTrend) > 1000 THEN "High" ELSE "Medium"]

predictNextDay(data, random) ==
  IF Len(data) < 2
  THEN IF Len(data) = 0 THEN UndefinedPoint ELSE data[1]
  ELSE LET lastPoint == data[Len(data)]
           previousPoint == data[Len(data) - 1]
           recentTrend == lastPoint.price - previousPoint.price
           predictedChange == (recentTrend * Factor(random)) \div 1000
       IN [lastPoint EXCEPT !.name = "Predict",
                            !.price = lastPoint.price + predictedChange,
                            !.predicted = "true",
                            !.confidence = IF Abs(recentTrend) > 1000 THEN "High" ELSE "Medium"]

QuotesArg(s) == [kind |-> "quotes", quotes |-> s, points |-> <<>>]

PointsArg(s) == [kind |-> "points", quotes |-> <<>>, points |-> s]

NoReturn == [label |-> "", point |-> UndefinedPoint]

\* no function is called
NoPure ==
  /\ fn = "none"
  /\ argument = QuotesArg(<<>>)
  /\ ret = NoReturn

PureInit ==
  /\ fn = "none"
  /\ argument \in {QuotesArg(s) : s \in SeqsUpTo(Percentages, MaxQuotes)}
             \cup {PointsArg(s) : s \in SeqsUpTo(HistoricalPoints, MaxPoints)}
  /\ ret = NoReturn

\* calculateMarketMood(stocksData) of Dashboard.jsx
CallMarketMood ==
  /\ fn = "none"
  /\ argument.kind = "quotes"
  /\ fn' = "calculateMarketMood"
  /\ ret' = [NoReturn EXCEPT !.label = calculateMarketMood(argument.quotes)]
  /\ UNCHANGED <<svars, cvars, argument>>

\* calculateMarketMood(stocksData) of the variant
CallMarketMoodVariant ==
  /\ fn = "none"
  /\ argument.kind = "quotes"
  /\ fn' = "calculateMarketMoodVariant"
  /\ ret' = [NoReturn EXCEPT !.label = calculateMarketMoodVariant(argument.quotes)]
  /\ UNCHANGED <<svars, cvars, argument>>

\* predictNextDay(data)
CallPredictNextDay ==
  /\ fn = "none"
  /\ argument.kind = "points"
  /\ fn' = "predictNextDay"
  /\ \E random \in Randoms : ret' = [NoReturn EXCEPT !.point = predictNextDay(argument.points, random)]
  /\ UNCHANGED <<svars, cvars, argument>>

PureNext ==
  \/ CallMarketMood
  \/ CallMarketMoodVariant
  \/ CallPredictNextDay

----------------------------------------------------------------------------
(* Specifications *)

\* the server alone: no component is rendered
NoClient ==
  /\ comp = "none"
  /\ phase = "rendered"
  /\ username = ""
  /\ timer = "none"
  /\ loading = TRUE
  /\ error = Null
  /\ userData = NullData
  /\ projects = EmptyList
  /\ stocks = <<>>
  /\ githubStats = NullData
  /\ gitlabStats = NullData
  /\ marketMood = "sleeping"
  /\ commitCount = 0
  /\ chartData = EmptyList
  /\ fetches = [f \in Fetches |-> IdleFetch]
  /\ commits = [k \in Keys |-> NoEntry]
  /\ expanded = "none"
  /\ cfetches = NoCommitFetch

\* a component alone: the server receives nothing
NoServer ==
  /\ env = "development"
  /\ req = [r \in Reqs |-> NewRequest]

Init == ServerInit /\ NoClient /\ NoPure

Next == ServerNext

Spec == Init /\ [][Next]_vars

\* every upstream call settles: it succeeds, fails or times out
FairSpec == Spec /\ \A r \in Reqs : WF_vars(Settles(r))

ClientStart == ClientInit /\ NoServer /\ NoPure

ClientSpec == ClientStart /\ [][ClientNext]_vars

\* every outbound request settles
ClientFairSpec == ClientSpec /\ \A f \in Fetches : WF_vars(ClientSettles(f))

\* the components with the clicks on the items of the cards
DrillNext ==
  \/ ClientNext
  \/ \E k \in Keys : ToggleExpansion(k)
  \/ \E r \in CommitRequests : CommitsSettled(r)

DrillSpec == ClientStart /\ [][DrillNext]_vars

PureStart == PureInit /\ NoServer /\ NoClient

\* the functions alone
PureSpec == PureStart /\ [][PureNext]_vars

----------------------------------------------------------------------------
(* Properties of the proxy *)

Answered(r) == req[r].pc = "done"

Response(r) == req[r].sent[Len(req[r].sent)]

\* a payload that is an object or a list with at least one element
NonEmpty(v) == v.t = "obj" \/ (v.t = "list" /\ Len(v.items) > 0)

ProxyHandlers ==
  {"githubUser", "githubRepos", "githubCommits", "gitlabUser", "gitlabProjects", "gitlabCommits",
   "gitlabSearch"}

RelayHandlers == {"githubUser", "githubRepos", "githubCommits", "gitlabProjects", "gitlabCommits"}

\* every upstream call of the request succeeded with a non-empty payload
AllNonEmptySuccess(r) ==
  /\ Len(req[r].calls) > 0
  /\ \A i \in 1..Len(req[r].calls) : req[r].calls[i].reply.ok /\ NonEmpty(req[r].calls[i].reply.data)

LastReply(r) == req[r].calls[Len(req[r].calls)].reply

\* C1 as stated: on every proxy endpoint an upstream success with a non-empty
\* payload is answered with status 200 and a body identical to the upstream
\* payload.
C1_Original ==
  \A r \in Reqs :
    (Answered(r) /\ req[r].handler \in ProxyHandlers /\ AllNonEmptySuccess(r))
      => /\ Len(req[r].sent) = 1
         /\ Response(r).status = 200
         /\ Response(r).body = JsonBody(LastReply(r).data)

\* C1 amended: the five single-call relay endpoints answer an upstream success
\* with a non-empty payload with status 200 and the payload itself;
\* /api/gitlab/user answers a non-empty upstream list with status 200 and the
\* first element of the list; /api/gitlab/search, when the user lookup
\* returns a non-empty list and the projects call a non-empty payload,
\* answers with status 200 and {user: first element, projects: the projects
\* payload, success: true}.
C1_Amended ==
  \A r \in Reqs :
    (Answered(r) /\ AllNonEmptySuccess(r)) =>
      /\ req[r].handler \in RelayHandlers =>
           req[r].sent = <<[status |-> 200, body |-> JsonBody(LastReply(r).data)]>>
      /\ (req[r].handler = "gitlabUser" /\ LastReply(r).data.t = "list") =>
           req[r].sent = <<[status |-> 200, body |-> JsonBody(First(LastReply(r).data))]>>
      /\ (req[r].handler = "gitlabSearch" /\ req[r].calls[1].reply.data.t = "list") =>
           req[r].sent = <<[status |-> 200,
                            body |-> Composite(First(req[r].calls[1].reply.data), LastReply(r).data)]>>

C1_Witness ==
  \E r1, r2 \in Reqs :
    /\ Answered(r1) /\ req[r1].handler = "gitlabUser" /\ AllNonEmptySuccess(r1)
    /\ LastReply(r1).data = JList(<<2, 1>>) /\ Response(r1).status = 200
    /\ Answered(r2) /\ req[r2].handler = "githubRepos" /\ AllNonEmptySuccess(r2)
    /\ Response(r2).status = 200

\* some upstream call of the request failed
UpstreamFailed(r) ==
  \E i \in 1..Len(req[r].calls) : ~req[r].calls[i].reply.ok /\ req[r].calls[i].reply.err \in Failures

EmptyLookup(r) ==
  /\ req[r].handler = "gitlabSearch"
  /\ Len(req[r].calls) >= 1
  /\ req[r].calls[1].reply.ok
  /\ req[r].calls[1].reply.data \in {JNull, JList(<<>>)}

\* C3: when the user lookup of /api/gitlab/search returns an empty or
\* missing list, the answer is 404 with a {message, suggestion} body and the
\* projects request is never issued.
C3_EmptyLookupIs404 ==
  \A r \in Reqs :
    EmptyLookup(r) =>
      /\ Len(req[r].calls) = 1
      /\ Len(req[r].sent) = 1
      /\ Response(r).status = 404
      /\ Response(r).body.fields = {"message", "suggestion"}

C3_Witness ==
  \E r1, r2 \in Reqs :
    /\ EmptyLookup(r1) /\ req[r1].calls[1].reply.data = JNull /\ Answered(r1)
    /\ EmptyLookup(r2) /\ req[r2].calls[1].reply.data = JList(<<>>) /\ Answered(r2)

\* C4: a proxy request issues exactly one upstream request, a search request
\* at most two, the projects request only after the user lookup has returned
\* a non-empty list; nothing is issued after a failed call.
C4_UpstreamCalls ==
  \A r \in Reqs :
    req[r].handler \in ProxyHandlers =>
      /\ req[r].handler # "gitlabSearch" => Len(req[r].calls) = 1
      /\ req[r].handler = "gitlabSearch" => Len(req[r].calls) \in {1, 2}
      /\ Len(req[r].calls) = 2 =>
           /\ req[r].calls[1].reply.ok
           /\ req[r].calls[1].reply.data.t = "list"
           /\ Len(req[r].calls[1].reply.data.items) > 0
           /\ req[r].calls[2].target = Target("gitlab.userProjects", "", req[r].calls[1].reply.data.items[1])
           /\ req[r].calls[2].target # req[r].calls[1].target
      /\ \A i \in 1..(Len(req[r].calls) - 1) : req[r].calls[i].reply.ok
      /\ Answered(r) => LastReply(r) # Pending

C4_Witness ==
  \E r1, r2 \in Reqs :
    /\ req[r1].handler = "gitlabSearch" /\ Len(req[r1].calls) = 2 /\ Answered(r1) /\ ~LastReply(r1).ok
    /\ req[r2].handler = "githubCommits" /\ Answered(r2) /\ ~LastReply(r2).ok

\* C5: every request that has arrived is eventually answered with exactly
\* one structured JSON response, and no request is ever answered twice.
C5_ExactlyOneResponse ==
  /\ \A r \in Reqs :
       (req[r].pc # "new") ~>
         (Answered(r) /\ Len(req[r].sent) = 1 /\ Response(r).body.kind # "html")
  /\ [](\A r \in Reqs : Len(req[r].sent) <= 1 /\ (Answered(r) => Len(req[r].sent) = 1))

C5_Witness ==
  \E r1, r2 \in Reqs :
    /\ r1 # r2
    /\ Answered(r1) /\ req[r1].handler = "gitlabUser" /\ Response(r1).status = 404
    /\ Answered(r2) /\ req[r2].handler = "gitlabSearch" /\ Len(req[r2].calls) = 2
    /\ Len(req[r1].sent) = 1 /\ Len(req[r2].sent) = 1

\* the eight documented routes
DocumentedRoutes ==
  {<<>>,
   <<"api", "github", "user", ":username">>,
   <<"api", "github", "user", ":username", "repos">>,
   <<"api", "github", "repos", ":owner", ":repo", "commits">>,
   <<"api", "gitlab", "user", ":username">>,
   <<"api", "gitlab", "projects", ":userid">>,
   <<"api", "gitlab", "projects", ":projectId", "commits">>,
   <<"api", "gitlab", "search", ":username">>}

Documented(path) == \E p \in DocumentedRoutes : Match(p, path)

\* C6: a path that matches no documented route is answered with 404
\* {message: "Route not found", path} and causes no upstream request; a path
\* that matches a documented route is never answered by the 404 handler.
C6_UnknownRouteIs404 ==
  \A r \in Reqs :
    req[r].pc # "new" =>
      /\ ~Documented(req[r].path) =>
           /\ req[r].calls = <<>>
           /\ req[r].sent = <<[status |-> 404,
                               body |-> Body("envelope", JNull, JNull, {"message", "path"},
                                             "Route not found", "", req[r].path)]>>
      /\ Documented(req[r].path) =>
           /\ req[r].handler \notin {"notFound", "finalhandler"}
           /\ \A i \in 1..Len(req[r].sent) : req[r].sent[i].body.message # "Route not found"

C6_Witness ==
  \E r1, r2 \in Reqs :
    /\ req[r1].path = <<"api", "dashboard-data">> /\ Answered(r1) /\ Response(r1).status = 404
    /\ req[r2].path = <<"api", "gitlab", "search", "lukhanyo">> /\ Answered(r2)
    /\ req[r2].handler = "gitlabSearch"

InternalDetails == {ErrMessage(e) : e \in Failures \cup {"typeerror"}}

\* C19 as stated: in production no 500 response carries the upstream or
\* internal error message in its error field.
C19_NoDetailInProduction ==
  env = "production" =>
    \A r \in Reqs : \A i \in 1..Len(req[r].sent) :
      req[r].sent[i].status = 500 => req[r].sent[i].body.error \notin InternalDetails

\* C20: /api/gitlab/user answers a non-empty upstream list with status 200
\* and the first element of the list, an empty or missing list (or a payload
\* that is no list) with status 404 and a body that has a message; it never
\* relays the list itself.
C20_FirstMatchOnly ==
  \A r \in Reqs :
    (Answered(r) /\ req[r].handler = "gitlabUser" /\ LastReply(r).ok) =>
      LET data == LastReply(r).data
      IN /\ Len(req[r].sent) = 1
         /\ IF data.t = "list" /\ Len(data.items) > 0
            THEN /\ Response(r).status = 200
                 /\ Response(r).body = JsonBody(JObj(data.items[1]))
            ELSE /\ Response(r).status = 404
                 /\ "message" \in Response(r).body.fields
                 /\ Response(r).body.message # ""
         /\ Response(r).body.value.t # "list"

C20_Witness ==
  \E r1, r2 \in Reqs :
    /\ Answered(r1) /\ req[r1].handler = "gitlabUser"
    /\ LastReply(r1) = Ok(JList(<<2, 1>>)) /\ Response(r1).body = JsonBody(JObj(2))
    /\ Answered(r2) /\ req[r2].handler = "gitlabUser"
    /\ LastReply(r2) = Ok(JList(<<>>)) /\ Response(r2).status = 404

\* the replies to the upstream calls of request r, in order
RepliesOf(r) == [i \in 1..Len(req[r].calls) |-> req[r].calls[i].reply]

\* C21: two requests with the same path whose upstream calls got the same
\* replies have the same response, however their steps interleave; a step of
\* one request changes no other request, and an answered request does not
\* change any more.
C21_RequestsIndependent ==
  /\ [](\A r1, r2 \in Reqs :
          (Answered(r1) /\ Answered(r2) /\ req[r1].path = req[r2].path /\ RepliesOf(r1) = RepliesOf(r2))
            => req[r1].sent = req[r2].sent)
  /\ [][\A r1, r2 \in Reqs : (req'[r1] # req[r1] /\ req'[r2] # req[r2]) => r1 = r2]_vars
  /\ [][\A r \in Reqs : Answered(r) => req'[r] = req[r]]_vars

\* the second request to arrive has been answered while the first one, for
\* the same path, still waits for its upstream call
C21_Witness ==
  /\ Answered(2)
  /\ req[1].pc = "await"
  /\ req[1].path = req[2].path
  /\ Len(req[2].calls) >= 1

\* C24: GET / (a request without body) is answered at once with status 200
\* and a body with the fields message, status and timestamp, and issues no
\* upstream request, whatever happens to the upstream calls of the other
\* requests.
C24_HealthAlways200 ==
  \A r \in Reqs :
    (req[r].pc # "new" /\ req[r].path = <<>>) =>
      /\ req[r].calls = <<>>
      /\ Answered(r)
      /\ Len(req[r].sent) = 1
      /\ Response(r).status = 200
      /\ Response(r).body.kind = "envelope"
      /\ Response(r).body.fields = {"message", "status", "timestamp"}

\* a health check answered after another request's upstream call has failed
C24_Witness ==
  /\ UpstreamFailed(1)
  /\ LastReply(1).err = "network"
  /\ req[2].path = <<>>
  /\ Answered(2)
  /\ Response(2).status = 200

----------------------------------------------------------------------------
(* Properties of the components *)

\* fetch f settles in this step
Settling(f) == fetches[f].pc # "done" /\ fetches'[f].pc = "done"

\* C7 as stated: after a profile fetch of a card has failed, the user record
\* and the project or repo list hold the demo dataset; the user record is
\* not null.
C7_FailureShowsDemo ==
  [][\A f \in Fetches :
       (IsCard /\ Settling(f) /\ fetches'[f].outcome = "failed")
         => /\ userData' # NullData
            /\ userData' = DemoUser(fetches[f].arg)
            /\ projects' = DemoProjects]_vars

\* C8: every fetch that has started settles, and the step in which it
\* settles leaves loading false, whether it succeeded or failed.
C8_LoadingEnds ==
  /\ \A f \in Fetches : InFlight(f) ~> (fetches[f].pc = "done")
  /\ [][\A f \in Fetches : Settling(f) => loading' = FALSE]_vars

C8_Witness ==
  \E f, g \in Fetches :
    /\ fetches[f].pc = "done" /\ fetches[f].outcome = "failed"
    /\ fetches[g].pc = "done" /\ fetches[g].outcome = "ok"
    /\ \A h \in Fetches : ~InFlight(h)
    /\ ~loading

\* what the component displays is the result of fetch f
Displays(f) ==
  CASE IsCard -> userData = fetches[f].r1 /\ projects = fetches[f].r2
    [] comp = "StockChart" -> chartData = fetches[f].r1
    [] comp = "Dashboard" -> githubStats = fetches[f].r1 /\ gitlabStats = fetches[f].r2
    [] comp = "DashboardVariant" -> stocks = fetches[f].quotes
    [] OTHER -> TRUE

\* C9 as stated: when a fetch settles successfully the displayed data is its
\* result and the error state is null, also when it overlaps a failing fetch.
C9_SuccessClearsError ==
  [][\A f \in Fetches :
       (Settling(f) /\ fetches'[f].outcome = "ok") => (error' = Null /\ Displays(f)')]_vars

\* C10 as stated: in the Dashboard a refresh cycle in which a developer-data
\* call failed ends with a warning in the error state and the demo dataset
\* displayed.
C10_FailureSetsWarning ==
  [][\A f \in Fetches :
       (comp = "Dashboard" /\ Settling(f) /\ fetches'[f].outcome = "failed")
         => (error' # Null /\ stocks' = MockData)]_vars

\* fetch f starts in this step
Starting(f) == fetches[f].pc = "idle" /\ fetches'[f].pc # "idle"

\* C11: once the Dashboard is torn down its interval is cleared and no step
\* starts a refresh cycle any more.
C11_NoCycleAfterTeardown ==
  /\ []((IsDashboard /\ phase = "unmounted") => timer = "cleared")
  /\ [][(IsDashboard /\ phase = "unmounted") => \A f \in Fetches : ~Starting(f)]_vars

\* torn down after the mount cycle has settled, with a slot left for a tick
C11_Witness ==
  /\ IsDashboard
  /\ phase = "unmounted"
  /\ \E f \in Fetches : fetches[f].pc = "done"
  /\ \E f \in Fetches : fetches[f].pc = "idle"
  /\ \A f \in Fetches : ~InFlight(f)

\* exactly one call of the fetch operation starts in this step, for arg
StartsOne(arg) ==
  \E f \in Fetches :
    /\ Starting(f)
    /\ fetches'[f].pc = "await"
    /\ fetches'[f].arg = arg
    /\ \A g \in Fetches \ {f} : fetches'[g] = fetches[g]

\* C12: while the Dashboard is mounted its interval is running, and its mount
\* and every tick of the interval start one refresh cycle; the mount of a card
\* and every change of its username start exactly one profile fetch, for the
\* new username.
C12_FetchOnMountTickAndChange ==
  /\ []((IsDashboard /\ phase = "mounted") => timer = "active")
  /\ [][((IsDashboard \/ IsCard) /\ phase = "rendered" /\ phase' = "mounted")
          => StartsOne(username')]_vars
  /\ [][DashboardTick => StartsOne("")]_vars
  /\ [][(IsCard /\ username' # username) => StartsOne(username')]_vars

\* a card whose username has changed since its mount: one fetch for each
C12_Witness ==
  /\ IsCard
  /\ phase = "mounted"
  /\ \A f \in 1..2 : fetches[f].pc # "idle"
  /\ fetches[1].arg # username
  /\ fetches[2].arg = username

\* calls f and g of the fetch operation overlapped
Overlapped(f, g) == f # g /\ (g \in fetches[f].over \/ f \in fetches[g].over)

\* C13 as stated: when a profile fetch of a card that overlapped another one
\* settles and no profile fetch is in flight any more, the displayed user
\* record and project list are the ones this fetch has written: its
\* responses after a success, the demo dataset after a failure in the GitLab
\* cards (a failed fetch of the GitHub card writes nothing).
C13_LastSettledWins ==
  [][\A f \in Fetches :
       (/\ IsCard
        /\ Settling(f)
        /\ \A g \in Fetches : ~InFlight(g)'
        /\ \E g \in Fetches : Overlapped(f, g))
         => IF fetches'[f].outcome = "ok"
            THEN userData' = fetches'[f].r1 /\ projects' = fetches'[f].r2
            ELSE comp # "GitHubCard" => (userData' = DemoUser(fetches[f].arg) /\ projects' = DemoProjects)]_vars

\* C15: once a refresh cycle of the Dashboard has ended and the fixed mock
\* quotes are displayed, marketMood is the label of the "average > 1" bucket,
\* not the one of "average > 2" or of "average > 0", whether the
\* developer-data calls of the cycle succeeded or failed.
C15_MockMoodIsCool ==
  (IsDashboard /\ stocks = MockData /\ \E f \in Fetches : fetches[f].pc = "done")
    => (marketMood = "cool" /\ marketMood \notin {"rocket", "smile"})

\* one cycle whose developer-data calls succeeded and one in which one failed
C15_Witness ==
  /\ comp = "Dashboard"
  /\ stocks = MockData
  /\ marketMood = "cool"
  /\ \E f, g \in Fetches :
       /\ fetches[f].pc = "done" /\ fetches[f].outcome = "ok"
       /\ fetches[g].pc = "done" /\ fetches[g].outcome = "failed"

----------------------------------------------------------------------------
(* Properties of the functions *)

SixLabels == {"rocket", "cool", "smile", "neutral", "worried", "fire"}

\* the label of the bucket of the average of s (percentages in hundredths)
\* on the descending ladder; a boundary value belongs to the lower bucket
Bucket(s) ==
  LET n == Len(s)
      sum == SumSeq(s)
  IN CASE sum > 200 * n -> "rocket"
       [] sum <= 200 * n /\ sum > 100 * n -> "cool"
       [] sum <= 100 * n /\ sum > 0 -> "smile"
       [] sum <= 0 /\ sum > -100 * n -> "neutral"
       [] sum <= -100 * n /\ sum > -200 * n -> "worried"
       [] sum <= -200 * n -> "fire"

C16_Prediction ==
  /\ [](fn = "predictNextDay" /\ Len(argument.points) >= 2 =>
          LET last == argument.points[Len(argument.points)].price
              delta == last - argument.points[Len(argument.points) - 1].price
              lo == IF delta >= 0 THEN 800 * delta ELSE 1200 * delta
              hi == IF delta >= 0 THEN 1200 * delta ELSE 800 * delta
          IN /\ ret.point.predicted = "true"
             /\ \E f \in 800..1200 : 1000 * (ret.point.price - last) = f * delta
             /\ lo <= 1000 * (ret.point.price - last)
             /\ 1000 * (ret.point.price - last) <= hi
             /\ ret.point.confidence = IF Abs(delta) > 1000 THEN "High" ELSE "Medium"
             /\ ret.point.volume = argument.points[Len(argument.points)].volume)
  /\ [][fn' = "predictNextDay" => argument' = argument]_vars

\* the documented example: prices 100 and 102, a prediction above 104
C16_Witness ==
  /\ fn = "predictNextDay"
  /\ Len(argument.points) >= 2
  /\ argument.points[Len(argument.points)].price = 102000
  /\ argument.points[Len(argument.points) - 1].price = 100000
  /\ ret.point.price > 104000
  /\ ret.point.confidence = "High"

C23_LoadingUntilFirstSettle ==
  (comp \in {"Dashboard", "DashboardVariant", "GitHubCard"} /\ \A f \in Fetches : fetches[f].pc # "done")
    => loading = TRUE

\* a mounted GitHubCard with two profile fetches in flight, none settled
C23_Witness ==
  /\ comp = "GitHubCard"
  /\ phase = "mounted"
  /\ \A f \in 1..2 : InFlight(f)
  /\ loading = TRUE

----------------------------------------------------------------------------
(* Properties of the commit drill-down.                                     *)

\* a commits request for item k of the displayed list is in flight
Fetching(k) == cfetches[CommitRequest(projects.name, k)] > 0

\* only the first profile fetch has been issued: the cache has not been reset
\* since the items were first shown
FirstFetchOnly == \A f \in Fetches : f > 1 => fetches[f].pc = "idle"

\* C26 as stated: a commits response that was requested for the previous
\* user and settles after the profile fetch of another user has reset the
\* cache never adds an entry.
C26_StaleResponseDropped ==
  [][\A r \in CommitRequests :
       (CommitsSettled(r) /\ projects.src = "live" /\ r.owner # projects.name)
         => commits' = commits]_vars

\* C27 as stated, for the clicks that follow the first profile fetch:
\* expanding an item whose commits are already loaded or already being
\* fetched issues no new commits request.
C27_OneRequestPerItem ==
  [][\A k \in Keys :
       (FirstFetchOnly /\ ToggleExpansion(k) /\ (commits[k] # NoEntry \/ Fetching(k)))
         => cfetches' = cfetches]_vars

\* C28: a failed commits request stores [] under its key and changes nothing
\* else (the other entries, the user record, the list, the expanded item,
\* loading, error); an expand click on an item whose entry is [] issues no
\* request.
C28_FailedCommitsStoredEmpty ==
  /\ [][\A r \in CommitRequests :
         (commits'[r.key] = EmptyCommits /\ CommitsSettled(r)) =>
           /\ \A k \in Keys \ {r.key} : commits'[k] = commits[k]
           /\ UNCHANGED <<userData, projects, expanded, loading, error>>]_vars
  /\ [][\A k \in Keys :
         (commits[k] = EmptyCommits /\ ToggleExpansion(k)) =>
           expanded' = (IF expanded = k THEN "none" ELSE k) /\ cfetches' = cfetches]_vars

\* an item whose commits request failed is expanded, another one is loaded,
\* no commits request is in flight
C28_Witness ==
  /\ expanded # "none"
  /\ expanded \in ItemsOf(projects)
  /\ commits[expanded] = EmptyCommits
  /\ \E k \in ItemsOf(projects) : commits[k].src = "live"
  /\ InFlightCommits = 0

\* C29: the expanded item is none or one key; a click on the toggle of the
\* expanded item collapses it, a click on the toggle of another item makes
\* that one the expanded item, and every profile fetch that settles
\* successfully leaves no item expanded.
C29_OneExpanded ==
  /\ [](expanded \in Keys \cup {"none"})
  /\ [][\A k \in Keys : ToggleExpansion(k) => expanded' = (IF expanded = k THEN "none" ELSE k)]_vars
  /\ [][\A f \in Fetches :
         (comp \in {"GitLabCard", "GitHubCard"} /\ Settling(f) /\ fetches'[f].outcome = "ok")
           => expanded' = "none"]_vars

\* the second demo project is expanded after the first one was
C29_Witness ==
  /\ comp = "GitLabCard"
  /\ expanded = "2"
  /\ expanded \in ItemsOf(projects)
  /\ commits["1"] # NoEntry

\* C22: every call of a fetch operation returns normally, a rejected request
\* included: a call that is over ended in its try or in its catch block, and
\* a commits fetch that settles stores an entry and returns.
C22_NoErrorPropagates ==
  /\ [](\A f \in Fetches : fetches[f].pc = "done" => fetches[f].outcome \in {"ok", "failed"})
  /\ [][\A f \in Fetches : Settling(f) => phase' = phase /\ fetches'[f].outcome # "none"]_vars
  /\ [][\A r \in CommitRequests :
         CommitsSettled(r) => commits'[r.key] # NoEntry /\ cfetches'[r] = cfetches[r] - 1]_vars

\* a profile fetch of the direct-API card was rejected and is over
C22_Witness ==
  /\ comp = "GitLabCardDirect"
  /\ phase = "mounted"
  /\ \E f \in Fetches : fetches[f].pc = "done" /\ fetches[f].outcome = "failed"
  /\ userData.src = "demo"

\* C30 as stated: a step of the Dashboard leaves githubStats, gitlabStats and
\* commitCount unchanged, or ends a successful cycle and sets the three from
\* the two responses of that cycle, commitCount to 15 times public_repos
\* plus 8 times the number of projects.
C30_StatsTogether ==
  [][comp = "Dashboard" =>
       \/ UNCHANGED <<githubStats, gitlabStats, commitCount>>
       \/ \E f \in Fetches :
            /\ Settling(f)
            /\ fetches'[f].outcome = "ok"
            /\ githubStats' = fetches'[f].r1
            /\ gitlabStats' = fetches'[f].r2
            /\ commitCount' = 15 * githubStats'.count + 8 * gitlabStats'.count]_vars

====
